---- MODULE Spec2Model ----
(***************************************************************************)
(* The two MCP adapters of the repository (claude-code-developer and       *)
(* gemini-qa-agent): the tool registry, call_tool, the eleven handlers and *)
(* the per-request life cycle of one adapter process.                      *)
(*                                                                         *)
(* Text is modelled at two levels.  Values the code only interpolates are  *)
(* strings.  Values the code takes apart character by character (the       *)
(* feature name, the source file path) are sequences of one-character      *)
(* strings, turned into a string by Str once the code is done with them.   *)
(***************************************************************************)
EXTENDS Integers, Sequences, FiniteSets, TLC

VARIABLES adapter, phase, req, handler, result, log, outcomes, cwd,
          original_dir, idx, acc, prompt, inflight, served

vars == <<adapter, phase, req, handler, result, log, outcomes, cwd,
          original_dir, idx, acc, prompt, inflight, served>>

----------------------------------------------------------------------------
(* Bounds of the model. *)

\* Longest path of the exhaustive path set of the naming specification.
MaxPathLen == 4

\* Longest feature name of the exhaustive name set of the branch
\* specification.
MaxNameLen == 3

\* Largest number of candidate files a directory yields to security_audit.
MaxCandidates == 2

\* Largest number of plain directories in a project tree of the quality
\* specification, and largest number of key files its globbing finds.
MaxDirs == 12

MaxKeyFiles == 7

\* Largest number of candidate files in the audit specification.
MaxAuditCandidates == 22

\* The count of answered requests stops growing here.
MaxServed == 2

----------------------------------------------------------------------------
(* Characters and strings. *)

RECURSIVE Str(_)
Str(s) == IF s = <<>> THEN "" ELSE s[1] \o Str(Tail(s))

Range(s) == {s[i] : i \in 1..Len(s)}

Uppers == <<"A","B","C","D","E","F","G","H","I","J","K","L","M",
            "N","O","P","Q","R","S","T","U","V","W","X","Y","Z">>

Lowers == <<"a","b","c","d","e","f","g","h","i","j","k","l","m",
            "n","o","p","q","r","s","t","u","v","w","x","y","z">>

Digits == {"0","1","2","3","4","5","6","7","8","9"}

\* Characters outside ASCII are written by their code point: LATIN CAPITAL
\* LETTER I WITH DOT ABOVE, COMBINING DOT ABOVE, LATIN SMALL and CAPITAL
\* LETTER E WITH ACUTE.  Each of these strings stands for one character.
CapitalIDot == "<U+0130>"

CombiningDot == "<U+0307>"

SmallEAcute == "<U+00E9>"

CapitalEAcute == "<U+00C9>"

\* str.lower() on one character: Unicode lowercasing, which turns U+0130
\* into the two characters "i" and U+0307.
LowerChar(c) ==
    IF c \in Range(Uppers)
    THEN <<Lowers[CHOOSE i \in 1..Len(Uppers) : Uppers[i] = c]>>
    ELSE IF c = CapitalIDot THEN <<"i", CombiningDot>>
    ELSE IF c = CapitalEAcute THEN <<SmallEAcute>>
    ELSE <<c>>

\* str.lower()
RECURSIVE lower(_)
lower(s) == IF s = <<>> THEN <<>> ELSE LowerChar(s[1]) \o lower(Tail(s))

\* The character class [a-zA-Z0-9] of the sanitizing pattern.
AlnumChar(c) == c \in Range(Lowers) \cup Range(Uppers) \cup Digits

\* A pattern that spares the underscore, as \W does.
SubCharWord(c) == IF AlnumChar(c) \/ c = "_" THEN c ELSE "-"

\* One character of re.sub(r'[^a-zA-Z0-9]', '-', ...).
SubChar(c) == IF AlnumChar(c) THEN c ELSE "-"

\* A sanitizer that also strips a trailing hyphen.
SanitizeTrimmed(s) ==
    LET t == [i \in 1..Len(s) |-> SubChar(s[i])]
    IN  IF t # <<>> /\ t[Len(t)] = "-" THEN SubSeq(t, 1, Len(t) - 1) ELSE t

\* re.sub(r'[^a-zA-Z0-9]', '-', s): every character outside the class is
\* replaced by one hyphen, nothing is collapsed or trimmed.
Sanitize(s) == [i \in 1..Len(s) |-> SubChar(s[i])]

\* branch_name = f"feature/{re.sub(..., feature_name.lower())}"
branch_name(feature_name) == "feature/" \o Str(Sanitize(lower(feature_name)))

\* Index of the last occurrence of c in s, 0 when there is none (str.rfind + 1).
RFind(s, c) ==
    IF \E i \in 1..Len(s) : s[i] = c
    THEN CHOOSE i \in 1..Len(s) : s[i] = c /\ \A j \in (i+1)..Len(s) : s[j] # c
    ELSE 0

\* os.path.basename (POSIX): what follows the last separator.
basename(p) == SubSeq(p, RFind(p, "/") + 1, Len(p))

\* os.path.splitext: the extension starts at the last dot of the last
\* component, unless only dots precede it there.
splitext(p) ==
    LET sepIndex == RFind(p, "/")
        dotIndex == RFind(p, ".")
    IN  IF /\ dotIndex > sepIndex
           /\ \E k \in (sepIndex + 1)..(dotIndex - 1) : p[k] # "."
        THEN <<SubSeq(p, 1, dotIndex - 1), SubSeq(p, dotIndex, Len(p))>>
        ELSE <<p, <<>>>>

JsExtensions == { <<".","j","s">>, <<".","t","s">>,
                  <<".","j","s","x">>, <<".","t","s","x">> }

PyExtension == <<".","p","y">>

JavaExtension == <<".","j","a","v","a">>

\* The naming of generate_tests with the .py branch lost.
test_file_name_nopy(source_file) ==
    LET base_name == splitext(basename(source_file))[1]
        extension == splitext(source_file)[2]
    IN  IF extension \in JsExtensions
        THEN base_name \o <<".","t","e","s","t">> \o extension
        ELSE IF extension = JavaExtension
        THEN base_name \o <<"T","e","s","t",".","j","a","v","a">>
        ELSE base_name \o <<"_","t","e","s","t">> \o extension

\* The test file name generate_tests derives from the source file.
test_file_name(source_file) ==
    LET base_name == splitext(basename(source_file))[1]
        extension == splitext(source_file)[2]
    IN  IF extension \in JsExtensions
        THEN base_name \o <<".","t","e","s","t">> \o extension
        ELSE IF extension = PyExtension
        THEN <<"t","e","s","t","_">> \o base_name \o <<".","p","y">>
        ELSE IF extension = JavaExtension
        THEN base_name \o <<"T","e","s","t",".","j","a","v","a">>
        ELSE base_name \o <<"_","t","e","s","t">> \o extension

\* test_file_path = f"./tests/{test_file_name}"
test_file_path(source_file) == "./tests/" \o Str(test_file_name(source_file))

----------------------------------------------------------------------------
(* The tool registries and the routing of call_tool. *)

\* The names of the Tool descriptors list_tools of the developer adapter
\* returns, in the order of the list.
ClaudeToolList ==
    <<"generate_code", "analyze_file", "create_feature_branch",
      "analyze_url_content", "ask_claude">>

\* The names of the Tool descriptors list_tools of the QA adapter returns.
GeminiToolList ==
    <<"review_code", "generate_tests", "security_audit",
      "performance_analysis", "code_quality_report", "ask_gemini">>

ClaudeTools == Range(ClaudeToolList)

GeminiTools == Range(GeminiToolList)

Adapters == {"claude", "gemini"}

ToolList(a) == IF a = "claude" THEN ClaudeToolList ELSE GeminiToolList

Registered(a) == IF a = "claude" THEN ClaudeTools ELSE GeminiTools

\* The keys each handler subscripts (args["k"]) before its try block, in the
\* order of the subscriptions.
Subscripts(h) ==
    CASE h = "generate_code"         -> <<"feature", "language">>
      [] h = "analyze_file"          -> <<"file_path">>
      [] h = "create_feature_branch" -> <<"feature_name">>
      [] h = "analyze_url_content"   -> <<"url", "language">>
      [] h = "ask_claude"            -> <<"prompt">>
      [] h = "review_code"           -> <<"file_path">>
      [] h = "generate_tests"        -> <<"source_file">>
      [] h = "security_audit"        -> <<"target_path">>
      [] h = "performance_analysis"  -> <<"file_path", "language">>
      [] h = "code_quality_report"   -> <<"project_path">>
      [] h = "ask_gemini"            -> <<"prompt">>

Subscripted(h) == Range(Subscripts(h))

\* The "required" list of each tool's inputSchema in list_tools.
Required(h) ==
    CASE h = "generate_code"         -> {"feature", "language"}
      [] h = "analyze_file"          -> {"file_path"}
      [] h = "create_feature_branch" -> {"feature_name"}
      [] h = "analyze_url_content"   -> {"url", "language"}
      [] h = "ask_claude"            -> {"prompt"}
      [] h = "review_code"           -> {"file_path"}
      [] h = "generate_tests"        -> {"source_file"}
      [] h = "security_audit"        -> {"target_path"}
      [] h = "performance_analysis"  -> {"file_path", "language"}
      [] h = "code_quality_report"   -> {"project_path"}
      [] h = "ask_gemini"            -> {"prompt"}

\* The "properties" of each tool's inputSchema in list_tools.
Properties(h) ==
    CASE h = "generate_code"         ->
            {"feature", "language", "context", "output_dir"}
      [] h = "analyze_file"          -> {"file_path", "improvement_type"}
      [] h = "create_feature_branch" -> {"feature_name", "base_branch"}
      [] h = "analyze_url_content"   -> {"url", "language"}
      [] h = "ask_claude"            -> {"prompt", "working_dir"}
      [] h = "review_code"           -> {"file_path", "review_type"}
      [] h = "generate_tests"        ->
            {"source_file", "test_framework", "coverage_level"}
      [] h = "security_audit"        -> {"target_path", "audit_level"}
      [] h = "performance_analysis"  -> {"file_path", "language"}
      [] h = "code_quality_report"   -> {"project_path", "include_metrics"}
      [] h = "ask_gemini"            -> {"prompt", "include_all_files"}

\* The parameters a caller may leave out.
Optional(h) == Properties(h) \ Required(h)

\* The "default" a property of an inputSchema declares; Undeclared where the
\* property has no "default" key.
Undeclared == "<no default>"

Declared(h, p) ==
    CASE h = "generate_code" /\ p = "output_dir"     -> "./"
      [] h = "create_feature_branch" /\ p = "base_branch" -> "main"
      [] h = "ask_claude" /\ p = "working_dir"       -> "./"
      [] h = "ask_gemini" /\ p = "include_all_files" -> "False"
      [] OTHER                                       -> Undeclared

\* The timeout= each handler passes to subprocess.run; NoTimeout where it
\* passes none.
NoTimeout == 0

TimeoutOf(h) ==
    CASE h = "generate_code"         -> 180
      [] h = "analyze_file"          -> 120
      [] h = "create_feature_branch" -> NoTimeout
      [] h = "analyze_url_content"   -> 120
      [] h = "ask_claude"            -> 120
      [] h = "review_code"           -> 90
      [] h = "generate_tests"        -> 120
      [] h = "security_audit"        -> 60
      [] h = "performance_analysis"  -> 90
      [] h = "code_quality_report"   -> 150
      [] h = "ask_gemini"            -> 120

----------------------------------------------------------------------------
(* The world a request meets: directories, files, process results. *)

\* The adapter's working directory at startup.
StartDir == "/w"

\* The directories that exist.
Dirs == {"/w", "/w/out", "/abs", "/w/deep", "/w/deep/deep"}

AbsolutePaths == {"/abs"}

\* os.path.join(cwd, p) as the operating system resolves a path.
Resolve(c, p) ==
    IF p \in AbsolutePaths THEN p
    ELSE IF p = "./" THEN c
    ELSE c \o "/" \o p

\* os.path.exists(p) for a directory argument, with working directory c.
DirExists(c, p) == Resolve(c, p) \in Dirs

OutputDirs == {"./", "out", "/abs", "deep", "nodir"}

WorkingDirs == {"./", "out", "nodir"}

\* What a path argument names: a regular file, a directory, or nothing.
Kinds == {"file", "dir", "none"}

FilePaths == {"/w/app.py", "/w/lib/util.js"}

Stdouts == {"OK", "partial"}

Stderrs == {"E1", "E2"}

ExitCodes == {0, 1}

\* str(e) of the exceptions a handler can meet.
ExcTimeout == "Command timed out"

ExcNoBinary == "[Errno 2] No such file or directory: binary"

ExcNoDir == "[Errno 2] No such file or directory: cwd"

ExcRead == "[Errno 13] Permission denied"

ExcType == "TypeError"

ExcMkdir == "[Errno 17] File exists: './tests'"

ExcWrite == "[Errno 28] No space left on device"

\* Feature names create_feature_branch is called with.
FeatureNames ==
    { <<"A","d","d"," ","U","s","e","r"," ","A","u","t","h","!">>,
      <<"f","i","x","_","B","u","g"," "," ","4","2">>,
      <<"l","o","g","i","n">>,
      <<>> }

\* Source files generate_tests is called with.
SourceFiles ==
    { <<"c","a","l","c",".","p","y">>,
      <<"a","p","p",".","j","s">>,
      <<"M","a","i","n",".","j","a","v","a">>,
      <<"l","i","b",".","r","b">>,
      <<"s","r","c","/","u","i",".","t","s","x">>,
      <<"v",".","1","/","R","E","A","D","M","E">> }

----------------------------------------------------------------------------
(* Project trees, as code_quality_report finds them on disk. *)

\* A tree is the sequence of its directories in the order os.walk visits
\* them top-down when it prunes nothing: each with its name, the index of its
\* parent (0 for the project directory itself) and the number of its files.
Node(name, parent, files) == [name |-> name, parent |-> parent, files |-> files]

RootOnly == <<Node("proj", 0, 0)>>

\* The project directory with k subdirectories side by side, after a
\* directory named ex that has a subdirectory of its own.  Every directory
\* holds f files.
WideTree(k, f, ex) ==
    <<Node("proj", 0, f), Node(ex, 1, f), Node("inner", 2, f)>>
    \o [i \in 1..k |-> Node("d" \o ToString(i), 1, f)]

\* The project directory over a chain of k directories, the last of which
\* holds a directory named ex that has a subdirectory of its own.
DeepTree(k, f, ex) ==
    <<Node("proj", 0, f)>>
    \o [i \in 1..k |-> Node("d" \o ToString(i), i, f)]
    \o <<Node(ex, k + 1, f), Node("inner", k + 2, f)>>

\* A directory name the walk has no reason to skip.
PlainName == "src"

DirNames ==
    {".git", "node_modules", "__pycache__", ".venv", "venv", "build", "dist",
     PlainName}

\* Files per directory: none, one, and around the limit of ten.
FileCounts == {0, 1, 10, 11}

Trees ==
    {WideTree(k, f, ex) : k \in 0..MaxDirs, f \in FileCounts, ex \in DirNames}
    \cup {DeepTree(k, f, ex) : k \in 0..MaxDirs, f \in FileCounts,
                               ex \in DirNames}

\* The files the six glob patterns find, in the order found: each with its
\* size in characters and whether open()/read() succeeds on it.
KeyFile(i, size, readable) ==
    [path |-> "proj/k" \o ToString(i) \o ".md", size |-> size,
     readable |-> readable]

\* Sizes around the limit of 2000 characters.
KeySizes == <<1999, 2000, 2001, 5000>>

KeyLists ==
    {[i \in 1..c |-> KeyFile(i, z, TRUE)] :
        c \in 0..MaxKeyFiles, z \in Range(KeySizes) \cup {0}}
    \cup {[i \in 1..c |-> KeyFile(i, KeySizes[(i % Len(KeySizes)) + 1],
                                   i % 3 # 0)] : c \in 0..MaxKeyFiles}

----------------------------------------------------------------------------
(* Requests. *)

\* An invocation request: the tool name, the keys of the argument mapping
\* (has) and the values the handlers look at.  badType says that the
\* argument the handler passes to a library call is None instead of a
\* string.  kind is what the path argument names on disk; n is the number of
\* candidate files a directory target yields to the audit's globbing;
\* installed says whether the binaries the handler starts (the AI CLI, git)
\* can be started while the request is served; script says how the audit of
\* each candidate file will end, "any" leaving it open; tree and keys are the
\* directory tree and the key files under a project path.
Req(name, has, badType, path, kind, src, feature, opt, n) ==
    [name |-> name, has |-> has, badType |-> badType, path |-> path,
     kind |-> kind, src |-> src, feature |-> feature, opt |-> opt, n |-> n,
     installed |-> TRUE, script |-> "any", tree |-> RootOnly, keys |-> <<>>]

Plain(name, has) == Req(name, has, FALSE, "", "none", <<>>, <<>>, "", 0)

NoReq == Plain("", {})

\* Requests that lack a required argument or name no tool of the adapter.
BadRequests(a) ==
    UNION {{Plain(h, (Required(h) \ {k}) \cup extra) :
                k \in Required(h), extra \in {{}, {"unused"}}} :
            h \in Registered(a)}
    \cup {Plain(h, {}) : h \in Registered(a)}
    \cup {Plain(nm, {"prompt", "file_path"}) :
            nm \in ({"bogus", "", "Generate_Code"} \cup Registered(
                        IF a = "claude" THEN "gemini" ELSE "claude"))}

ClaudeRequests ==
    {Plain("generate_code", {"feature", "language"}),
     Plain("generate_code", {"feature", "language", "context"})}
    \cup {Req("generate_code", {"feature", "language", "output_dir"},
              b, d, "dir", <<>>, <<>>, "", 0) :
            b \in BOOLEAN, d \in OutputDirs}
    \cup {Req("analyze_file", {"file_path"} \cup o, b, p, k,
              <<>>, <<>>, "", 0) :
            o \in {{}, {"improvement_type"}}, b \in BOOLEAN,
            p \in FilePaths, k \in Kinds}
    \cup {Req("create_feature_branch", {"feature_name"}, b, "", "none",
              <<>>, f, "", 0) :
            b \in BOOLEAN, f \in FeatureNames}
    \cup {Req("create_feature_branch", {"feature_name", "base_branch"},
              FALSE, "", "none", <<>>, f, "develop", 0) :
            f \in FeatureNames}
    \cup {Plain("analyze_url_content", {"url", "language"})}
    \cup {Req("ask_claude", {"prompt"}, b, "./", "dir", <<>>, <<>>, "", 0) :
            b \in BOOLEAN}
    \cup {Req("ask_claude", {"prompt", "working_dir"}, FALSE, d, "dir",
              <<>>, <<>>, "", 0) :
            d \in WorkingDirs}

GeminiRequests ==
    {Req(h, Subscripted(h) \cup o, b, p, k, <<>>, <<>>, "", 0) :
        h \in {"review_code", "performance_analysis", "code_quality_report"},
        o \in {{}, {"review_type"}}, b \in BOOLEAN,
        p \in FilePaths, k \in Kinds}
    \cup {Req("generate_tests", {"source_file"}, b, Str(s), k, s, <<>>, "", 0) :
            b \in BOOLEAN, s \in SourceFiles, k \in Kinds}
    \cup {Req("security_audit", {"target_path"} \cup o[1], b, p, "file",
              <<>>, <<>>, o[2], 1) :
            o \in {<<{}, "">>, <<{"audit_level"}, "deep">>},
            b \in BOOLEAN, p \in FilePaths}
    \cup {Req("security_audit", {"target_path"} \cup o[1], FALSE, "/w/proj", k,
              <<>>, <<>>, o[2], n) :
            o \in {<<{}, "">>, <<{"audit_level"}, "deep">>,
                   <<{"audit_level"}, "paranoid">>},
            k \in {"dir", "none"}, n \in 0..MaxCandidates}
    \cup {Req("ask_gemini", {"prompt"} \cup o[1], b, "", "none",
              <<>>, <<>>, o[2], 0) :
            o \in {<<{}, "">>, <<{"include_all_files"}, "True">>},
            b \in BOOLEAN}

\* Every request the model sends to adapter a.
Requests(a) ==
    LET good == IF a = "claude" THEN ClaudeRequests ELSE GeminiRequests
    IN  BadRequests(a) \cup good
          \cup {[r EXCEPT !.installed = FALSE] : r \in good}

----------------------------------------------------------------------------
(* Envelopes, errors and the frame of a running handler. *)

\* The invocation result a handler returns: status is read off the mark the
\* text starts with (check mark, cross, clock), head is the fixed text that
\* follows it, params the request values interpolated for traceability and
\* output the captured process output or exception text.
Envelope(status, head, params, output) ==
    [status |-> status, head |-> head, params |-> params, output |-> output]

Success(head, params, output) == Envelope("success", head, params, output)

Failure(head, params, output) == Envelope("failure", head, params, output)

TimedOut(head) == Envelope("timeout", head, <<>>, <<>>)

\* An exception that leaves call_tool: raise ValueError(...), or the KeyError
\* of args["k"].
Raised(head, what) == Envelope("raised", head, <<what>>, <<>>)

NoResult == Envelope("none", "", <<>>, <<>>)

\* The parts of a prompt that are computed from the disk: the lines of the
\* structure summary and the contents taken from the key files.
Prompt(structure, config) == [structure |-> structure, config |-> config]

NoPrompt == Prompt(<<>>, <<>>)

\* What one request has done outside the process: external processes
\* started, directories made, files written.
RunEffect(bin, arg, wd, t) ==
    [op |-> "run", bin |-> bin, arg |-> arg, cwd |-> wd, timeout |-> t]

FsEffect(op, what, wd) ==
    [op |-> op, bin |-> "", arg |-> what, cwd |-> wd, timeout |-> NoTimeout]

\* How an external process ended: it exited (rc, out, err) or the wait expired.
Exited(rc, out, err) == [how |-> "exit", rc |-> rc, out |-> out, err |-> err]

Expired == [how |-> "timeout", rc |-> -1, out |-> "", err |-> ""]

\* The state a handler reads and writes.
Frame ==
    [phase |-> phase, handler |-> handler, result |-> result, log |-> log,
     outcomes |-> outcomes, cwd |-> cwd, original_dir |-> original_dir,
     idx |-> idx, acc |-> acc, prompt |-> prompt, inflight |-> inflight]

Apply(f) ==
    /\ phase' = f.phase
    /\ handler' = f.handler
    /\ result' = f.result
    /\ log' = f.log
    /\ outcomes' = f.outcomes
    /\ cwd' = f.cwd
    /\ original_dir' = f.original_dir
    /\ idx' = f.idx
    /\ acc' = f.acc
    /\ prompt' = f.prompt
    /\ inflight' = f.inflight

\* return [TextContent(...)]
Return(f, env) == [f EXCEPT !.phase = "resolved", !.result = env]

\* An exception nothing in the handler catches.
Raise(f, err) == [f EXCEPT !.phase = "raised", !.result = err]

\* subprocess.run(...) has started the process and waits for it: the
\* handler has no await, so the event loop of the adapter does nothing else
\* until the call is over.
Run(f, bin, arg, wd, t) ==
    [f EXCEPT !.phase = "running",
              !.log = Append(@, RunEffect(bin, arg, wd, t)),
              !.inflight = @ + 1]

\* A wait that gives up at its timeout and leaves the child running.
ReapAbandoning(f, o) ==
    [f EXCEPT !.outcomes = Append(@, o),
              !.inflight = IF o.how = "timeout" THEN @ ELSE @ - 1]

\* subprocess.run(...) is over: the child has exited, or the wait expired
\* and run() killed the child before raising TimeoutExpired.
Reap(f, o) ==
    [f EXCEPT !.outcomes = Append(@, o), !.inflight = @ - 1]

\* The text entries of an accumulated result list.
Texts(entries) == [i \in 1..Len(entries) |-> entries[i].text]

Entry(tag, what, text) == [tag |-> tag, what |-> what, text |-> text]

\* Values of arguments the model does not vary.
FeatureVal == "login form"

LanguageVal == "python"

UrlVal == "https://example.org/api"

\* args.get(key, default) of the optional arguments.
OutputDir(r) == IF "output_dir" \in r.has THEN r.path ELSE "./"

WorkingDir(r) == IF "working_dir" \in r.has THEN r.path ELSE "./"

BaseBranch(r) == IF "base_branch" \in r.has THEN r.opt ELSE "main"

AuditLevel(r) == IF "audit_level" \in r.has THEN r.opt ELSE "quick"

ImprovementType(r) == IF "improvement_type" \in r.has THEN "security" ELSE "general"

ReviewType(r) == IF "review_type" \in r.has THEN "security" ELSE "general"

IncludeAllFiles(r) == IF "include_all_files" \in r.has THEN r.opt ELSE "False"

Context(r) == IF "context" \in r.has THEN "see https://example.org" ELSE ""

TestFramework(r) == IF "test_framework" \in r.has THEN r.opt ELSE "jest"

CoverageLevel(r) ==
    IF "coverage_level" \in r.has THEN r.opt ELSE "comprehensive"

IncludeMetrics(r) == IF "include_metrics" \in r.has THEN r.opt ELSE "True"

\* The value the handler works with for the optional parameter p.
Effective(r, p) ==
    CASE p = "output_dir"        -> OutputDir(r)
      [] p = "working_dir"       -> WorkingDir(r)
      [] p = "base_branch"       -> BaseBranch(r)
      [] p = "audit_level"       -> AuditLevel(r)
      [] p = "improvement_type"  -> ImprovementType(r)
      [] p = "review_type"       -> ReviewType(r)
      [] p = "include_all_files" -> IncludeAllFiles(r)
      [] p = "context"           -> Context(r)
      [] p = "test_framework"    -> TestFramework(r)
      [] p = "coverage_level"    -> CoverageLevel(r)
      [] p = "include_metrics"   -> IncludeMetrics(r)

----------------------------------------------------------------------------
(* The handlers of the developer adapter.  Each handler has a start (from   *)
(* its first line to the first subprocess.run it waits in, or to its        *)
(* return) and a done (from the end of that wait on).  binOk says whether   *)
(* the binary can be started, readable whether open()/read() succeeds.      *)

\* generate_code_handler up to subprocess.run.
generate_code_start(f, r, binOk) ==
    LET output_dir == OutputDir(r)
        orig == f.cwd
        moved == output_dir # "./" /\ DirExists(orig, output_dir)
        inside == IF moved THEN Resolve(orig, output_dir) ELSE orig
        run_cwd == IF DirExists(inside, output_dir)
                   THEN Resolve(inside, output_dir) ELSE orig
    IN  IF r.badType
        THEN Return(f, Failure("Error", <<>>, <<ExcType>>))
        ELSE IF ~binOk
        THEN Return(f, Failure("Error", <<>>, <<ExcNoBinary>>))
        ELSE Run([f EXCEPT !.cwd = inside, !.original_dir = orig],
                 "claude", "--print", run_cwd, TimeoutOf("generate_code"))

\* generate_code_handler with a failure branch that reports the standard
\* error alone, as the other handlers do.
generate_code_done_stderr_only(f, r, o) ==
    LET back == [f EXCEPT !.cwd = f.original_dir, !.original_dir = ""]
    IN  IF o.how = "timeout"
        THEN Return(back, TimedOut("Code generation timed out"))
        ELSE IF o.rc = 0
        THEN Return(back, Success("Code generation completed successfully!",
                                  <<FeatureVal, LanguageVal, OutputDir(r)>>,
                                  <<o.out>>))
        ELSE Return(back, Failure("Code generation failed", <<>>, <<o.err>>))

\* generate_code_handler with os.chdir(original_dir) at the end of the try
\* body instead of in a finally clause: a timeout skips it.
generate_code_done_no_finally(f, r, o) ==
    LET back == [f EXCEPT !.cwd = f.original_dir, !.original_dir = ""]
    IN  IF o.how = "timeout"
        THEN Return(f, TimedOut("Code generation timed out"))
        ELSE IF o.rc = 0
        THEN Return(back, Success("Code generation completed successfully!",
                                  <<FeatureVal, LanguageVal, OutputDir(r)>>,
                                  <<o.out>>))
        ELSE Return(back, Failure("Code generation failed", <<>>,
                                  <<o.err, o.out>>))

\* generate_code_handler from the end of the wait: the result branches, the
\* finally clause, the except clauses.
generate_code_done(f, r, o) ==
    LET back == [f EXCEPT !.cwd = f.original_dir, !.original_dir = ""]
    IN  IF o.how = "timeout"
        THEN Return(back, TimedOut("Code generation timed out"))
        ELSE IF o.rc = 0
        THEN Return(back, Success("Code generation completed successfully!",
                                  <<FeatureVal, LanguageVal, OutputDir(r)>>,
                                  <<o.out>>))
        ELSE Return(back, Failure("Code generation failed", <<>>,
                                  <<o.err, o.out>>))

\* analyze_file_handler up to subprocess.run.
analyze_file_start(f, r, readable, binOk) ==
    IF r.badType
    THEN Return(f, Failure("Error analyzing file", <<>>, <<ExcType>>))
    ELSE IF r.kind = "none"
    THEN Return(f, Failure("File not found", <<r.path>>, <<>>))
    ELSE IF r.kind = "dir" \/ ~readable
    THEN Return(f, Failure("Error analyzing file", <<>>, <<ExcRead>>))
    ELSE IF ~binOk
    THEN Return(f, Failure("Error analyzing file", <<>>, <<ExcNoBinary>>))
    ELSE Run(f, "claude", "--print", f.cwd, TimeoutOf("analyze_file"))

\* analyze_file_handler from the end of the wait.
analyze_file_done(f, r, o) ==
    IF o.how = "timeout"
    THEN Return(f, Failure("Error analyzing file", <<>>, <<ExcTimeout>>))
    ELSE IF o.rc = 0
    THEN Return(f, Success("File analysis completed!",
                           <<r.path, ImprovementType(r)>>, <<o.out>>))
    ELSE Return(f, Failure("File analysis failed", <<>>, <<o.err>>))

\* commands = [[git checkout base], [git pull origin base],
\*             [git checkout -b branch]]
commands(r) ==
    << "checkout " \o BaseBranch(r),
       "pull origin " \o BaseBranch(r),
       "checkout -b " \o branch_name(r.feature) >>

\* create_feature_branch_handler up to the loop over the commands.
create_feature_branch_start(f, r) ==
    IF r.badType
    THEN Return(f, Failure("Error creating branch", <<>>, <<ExcType>>))
    ELSE [f EXCEPT !.phase = "loop", !.idx = 1, !.acc = <<>>]

\* One turn of the loop head: start the next command, or return the
\* aggregated output once the list is exhausted.
create_feature_branch_loop(f, r, binOk) ==
    IF f.idx > Len(commands(r))
    THEN Return([f EXCEPT !.idx = 0, !.acc = <<>>],
                Success("Feature branch created successfully!",
                        <<branch_name(r.feature)>>, Texts(f.acc)))
    ELSE IF ~binOk
    THEN Return([f EXCEPT !.idx = 0, !.acc = <<>>],
                Failure("Error creating branch", <<>>, <<ExcNoBinary>>))
    ELSE Run(f, "git", commands(r)[f.idx], f.cwd,
             TimeoutOf("create_feature_branch"))

\* A loop body that gives up at the first command that exits non-zero.
create_feature_branch_done_aborting(f, r, o) ==
    LET line == Entry("cmd", commands(r)[f.idx], o.out)
    IN  IF o.rc # 0
        THEN Return([f EXCEPT !.idx = 0, !.acc = <<>>],
                    Failure("Error creating branch", <<>>, <<o.err>>))
        ELSE [f EXCEPT !.phase = "loop", !.idx = @ + 1, !.acc = @ \o <<line>>]

\* The loop body after subprocess.run returned: the command line and its
\* standard output, and a warning with the standard error on a non-zero exit.
create_feature_branch_done(f, r, o) ==
    LET line == Entry("cmd", commands(r)[f.idx], o.out)
        warn == Entry("warning", commands(r)[f.idx], o.err)
    IN  [f EXCEPT !.phase = "loop",
                  !.idx = @ + 1,
                  !.acc = IF o.rc # 0 THEN @ \o <<line, warn>>
                                      ELSE @ \o <<line>>]

\* analyze_url_content_handler up to subprocess.run.
analyze_url_content_start(f, r, binOk) ==
    IF ~binOk
    THEN Return(f, Failure("Error analyzing URL", <<>>, <<ExcNoBinary>>))
    ELSE Run(f, "claude", "--print", f.cwd, TimeoutOf("analyze_url_content"))

\* analyze_url_content_handler from the end of the wait.
analyze_url_content_done(f, r, o) ==
    IF o.how = "timeout"
    THEN Return(f, Failure("Error analyzing URL", <<>>, <<ExcTimeout>>))
    ELSE IF o.rc = 0
    THEN Return(f, Success("URL content analyzed!",
                           <<UrlVal, LanguageVal>>, <<o.out>>))
    ELSE Return(f, Failure("Failed to analyze URL", <<UrlVal>>, <<o.err>>))

\* ask_claude_handler up to subprocess.run(..., cwd=working_dir).
ask_claude_start(f, r, binOk) ==
    IF r.badType
    THEN Return(f, Failure("Error", <<>>, <<ExcType>>))
    ELSE IF ~DirExists(f.cwd, WorkingDir(r))
    THEN Return(f, Failure("Error", <<>>, <<ExcNoDir>>))
    ELSE IF ~binOk
    THEN Return(f, Failure("Error", <<>>, <<ExcNoBinary>>))
    ELSE Run(f, "claude", "--print", Resolve(f.cwd, WorkingDir(r)),
             TimeoutOf("ask_claude"))

\* ask_claude_handler that asks once more after a non-zero exit.
ask_claude_done_retrying(f, r, o) ==
    IF o.how = "timeout"
    THEN Return(f, TimedOut("Claude Code request timed out"))
    ELSE IF o.rc = 0
    THEN Return(f, Success("Claude Code Response", <<>>, <<o.out>>))
    ELSE IF Len(f.log) < 2
    THEN Run(f, "claude", "--print", Resolve(f.cwd, WorkingDir(r)),
             TimeoutOf("ask_claude"))
    ELSE Return(f, Failure("Claude Code Error", <<>>, <<o.err>>))

\* ask_claude_handler from the end of the wait.
ask_claude_done(f, r, o) ==
    IF o.how = "timeout"
    THEN Return(f, TimedOut("Claude Code request timed out"))
    ELSE IF o.rc = 0
    THEN Return(f, Success("Claude Code Response", <<>>, <<o.out>>))
    ELSE Return(f, Failure("Claude Code Error", <<>>, <<o.err>>))

----------------------------------------------------------------------------
(* The handlers of the QA adapter. *)

\* review_code_handler without its os.path.exists check: the missing file
\* is met by open().
review_code_start_unchecked(f, r, readable, binOk) ==
    IF r.badType
    THEN Return(f, Failure("Error during code review", <<>>, <<ExcType>>))
    ELSE IF r.kind # "file" \/ ~readable
    THEN Return(f, Failure("Error during code review", <<>>, <<ExcRead>>))
    ELSE IF ~binOk
    THEN Return(f, Failure("Error during code review", <<>>, <<ExcNoBinary>>))
    ELSE Run(f, "gemini", "--prompt", f.cwd, TimeoutOf("review_code"))

\* review_code_handler up to subprocess.run.
review_code_start(f, r, readable, binOk) ==
    IF r.badType
    THEN Return(f, Failure("Error during code review", <<>>, <<ExcType>>))
    ELSE IF r.kind = "none"
    THEN Return(f, Failure("File not found", <<r.path>>, <<>>))
    ELSE IF r.kind = "dir" \/ ~readable
    THEN Return(f, Failure("Error during code review", <<>>, <<ExcRead>>))
    ELSE IF ~binOk
    THEN Return(f, Failure("Error during code review", <<>>, <<ExcNoBinary>>))
    ELSE Run(f, "gemini", "--prompt", f.cwd, TimeoutOf("review_code"))

\* review_code_handler from the end of the wait.
review_code_done(f, r, o) ==
    IF o.how = "timeout"
    THEN Return(f, Failure("Error during code review", <<>>, <<ExcTimeout>>))
    ELSE IF o.rc = 0
    THEN Return(f, Success("Code review completed!",
                           <<r.path, ReviewType(r)>>, <<o.out>>))
    ELSE Return(f, Failure("Code review failed", <<>>, <<o.err>>))

\* generate_tests_handler up to subprocess.run.
generate_tests_start(f, r, readable, binOk) ==
    IF r.badType
    THEN Return(f, Failure("Error generating tests", <<>>, <<ExcType>>))
    ELSE IF r.kind = "none"
    THEN Return(f, Failure("Source file not found", <<r.path>>, <<>>))
    ELSE IF r.kind = "dir" \/ ~readable
    THEN Return(f, Failure("Error generating tests", <<>>, <<ExcRead>>))
    ELSE IF ~binOk
    THEN Return(f, Failure("Error generating tests", <<>>, <<ExcNoBinary>>))
    ELSE Run(f, "gemini", "--prompt", f.cwd, TimeoutOf("generate_tests"))

\* generate_tests_handler from the end of the wait: on exit 0 the test file
\* is named, ./tests is made (mkdirOk: os.makedirs succeeds) and the file is
\* written (writeOk: open/write succeed) inside the inner try.
generate_tests_done(f, r, o, mkdirOk, writeOk) ==
    LET made == [f EXCEPT !.log = Append(@, FsEffect("makedirs", "./tests", f.cwd))]
        saved == [made EXCEPT !.log = Append(@, FsEffect("write",
                                        test_file_path(r.src), f.cwd))]
    IN  IF o.how = "timeout"
        THEN Return(f, Failure("Error generating tests", <<>>, <<ExcTimeout>>))
        ELSE IF o.rc # 0
        THEN Return(f, Failure("Test generation failed", <<>>, <<o.err>>))
        ELSE IF ~mkdirOk
        THEN Return(f, Failure("Error generating tests", <<>>, <<ExcMkdir>>))
        ELSE IF writeOk
        THEN Return(saved, Success("Test cases generated and saved!",
                                   <<r.path, test_file_path(r.src),
                                     TestFramework(r), CoverageLevel(r)>>,
                                   <<o.out>>))
        ELSE Return(made, Success("Test cases generated!",
                                  <<r.path, TestFramework(r), CoverageLevel(r),
                                    ExcWrite>>,
                                  <<o.out>>))

\* The candidates of security_audit: the file itself, or what the nine glob
\* patterns find under the directory.
candidates(r) ==
    IF r.kind = "file" THEN <<r.path>>
    ELSE [i \in 1..r.n |-> r.path \o "/f" \o ToString(i) \o ".py"]

\* The two limits the wrong way round.
max_files_swapped(r) == IF AuditLevel(r) = "deep" THEN 10 ELSE 20

\* max_files = 20 if audit_level == "deep" else 10
max_files(r) == IF AuditLevel(r) = "deep" THEN 20 ELSE 10

\* files_to_audit[:max_files]
files_to_audit(r) ==
    SubSeq(candidates(r), 1,
           IF Len(candidates(r)) < max_files(r)
           THEN Len(candidates(r)) ELSE max_files(r))

\* security_audit_handler up to the loop over the files.
security_audit_start(f, r) ==
    IF r.badType
    THEN Return(f, Failure("Security audit error", <<>>, <<ExcType>>))
    ELSE IF r.kind = "none"
    THEN Return(f, Failure("Path not found", <<r.path>>, <<>>))
    ELSE [f EXCEPT !.phase = "loop", !.idx = 1, !.acc = <<>>]

\* One turn of the loop head: read the next file and start its audit, note
\* the error and go on when that raises, or return the report once the list
\* is exhausted.
security_audit_loop(f, r, readable, binOk) ==
    LET files == files_to_audit(r)
    IN  IF f.idx > Len(files)
        THEN Return(f,
                    Success("Security audit completed!",
                            <<r.path, ToString(Len(f.acc)), AuditLevel(r)>>,
                            Texts(f.acc)))
        ELSE IF ~readable
        THEN [f EXCEPT !.idx = @ + 1,
                       !.acc = Append(@, Entry("error", files[f.idx], ExcRead))]
        ELSE IF ~binOk
        THEN [f EXCEPT !.idx = @ + 1,
                       !.acc = Append(@, Entry("error", files[f.idx], ExcNoBinary))]
        ELSE Run(f, "gemini", "--prompt " \o files[f.idx], f.cwd,
                 TimeoutOf("security_audit"))

\* The loop body after the wait: one entry per file, whatever happened.
security_audit_done(f, r, o) ==
    LET file == files_to_audit(r)[f.idx]
        entry == IF o.how = "timeout" THEN Entry("error", file, ExcTimeout)
                 ELSE IF o.rc = 0 THEN Entry("ok", file, o.out)
                 ELSE Entry("failed", file, o.err)
    IN  [f EXCEPT !.phase = "loop", !.idx = @ + 1, !.acc = Append(@, entry)]

\* performance_analysis_handler up to subprocess.run.
performance_analysis_start(f, r, readable, binOk) ==
    IF r.badType
    THEN Return(f, Failure("Performance analysis error", <<>>, <<ExcType>>))
    ELSE IF r.kind = "none"
    THEN Return(f, Failure("File not found", <<r.path>>, <<>>))
    ELSE IF r.kind = "dir" \/ ~readable
    THEN Return(f, Failure("Performance analysis error", <<>>, <<ExcRead>>))
    ELSE IF ~binOk
    THEN Return(f, Failure("Performance analysis error", <<>>, <<ExcNoBinary>>))
    ELSE Run(f, "gemini", "--prompt", f.cwd, TimeoutOf("performance_analysis"))

\* performance_analysis_handler from the end of the wait.
performance_analysis_done(f, r, o) ==
    IF o.how = "timeout"
    THEN Return(f, Failure("Performance analysis error", <<>>, <<ExcTimeout>>))
    ELSE IF o.rc = 0
    THEN Return(f, Success("Performance analysis completed!",
                           <<r.path, LanguageVal>>, <<o.out>>))
    ELSE Return(f, Failure("Performance analysis failed", <<>>, <<o.err>>))

\* The subdirectories of directory d of tree t, in listing order.
Children(t, d) ==
    SelectSeq([i \in 1..Len(t) |-> i], LAMBDA j : t[j].parent = d)

\* The directory names the walk does not enter.
Skipped ==
    {".git", "node_modules", "__pycache__", ".venv", "venv", "build", "dist"}

\* A walk that prunes nothing.
kept_all(t, d) == Children(t, d)

\* dirs[:] = [d for d in dirs if d not in [...]]
kept(t, d) == SelectSeq(Children(t, d), LAMBDA j : t[j].name \notin Skipped)

\* level = root.replace(project_path, '').count(os.sep)
RECURSIVE Level(_, _)
Level(t, d) == IF t[d].parent = 0 THEN 0 ELSE 1 + Level(t, t[d].parent)

\* '  ' * level
RECURSIVE Indent(_)
Indent(level) == IF level = 0 THEN "" ELSE "  " \o Indent(level - 1)

\* len(files[:10])
Listed(n) == IF n < 10 THEN n ELSE 10

\* The lines one directory adds to structure_info: its own and those of its
\* first ten files.
DirLines(t, d) ==
    <<Entry("dir", d, Indent(Level(t, d)) \o t[d].name \o "/")>>
    \o [i \in 1..Listed(t[d].files) |->
            Entry("file", d, Indent(Level(t, d) + 1) \o "f" \o ToString(i))]

\* for root, dirs, files in os.walk(project_path): the directories still to
\* visit (todo), the lines so far and the files counted so far.
RECURSIVE walk(_, _, _, _)
walk(t, todo, structure_info, file_count) ==
    IF todo = <<>> THEN structure_info
    ELSE LET d == todo[1]
             info == structure_info \o DirLines(t, d)
             count == file_count + Listed(t[d].files)
         IN  IF count > 100
             THEN Append(info, Entry("truncated", d,
                                     Indent(Level(t, d) + 1) \o "... (truncated)"))
             ELSE walk(t, kept(t, d) \o Tail(todo), info, count)

\* structure_info after the walk; os.walk of a path that is no directory
\* yields nothing.
structure_info(r) ==
    IF r.kind = "dir" THEN walk(r.tree, <<1>>, <<>>, 0) ELSE <<>>

\* "\n".join(structure_info[:100])
structure_summary(info) ==
    Texts(SubSeq(info, 1, IF Len(info) < 100 THEN Len(info) ELSE 100))

\* len(f.read()[:2000])
Taken(size) == IF size < 2000 THEN size ELSE 2000

\* The loop over key_files[:5]: what is taken from each file that can be
\* read; a file that cannot is passed over.
config_content(r) ==
    LET key_files == IF r.kind = "dir" THEN r.keys ELSE <<>>
        first == SubSeq(key_files, 1,
                        IF Len(key_files) < 5 THEN Len(key_files) ELSE 5)
        read == SelectSeq(first, LAMBDA k : k.readable)
    IN  [i \in 1..Len(read) |->
            [path |-> read[i].path, taken |-> Taken(read[i].size)]]

\* code_quality_report_handler up to subprocess.run: the existence check,
\* the walk, the reading of the key files and the start of the CLI.
code_quality_report_start(f, r, binOk) ==
    LET g == [f EXCEPT !.acc = structure_info(r),
                       !.prompt = Prompt(structure_summary(structure_info(r)),
                                         config_content(r))]
    IN  IF r.badType
        THEN Return(f, Failure("Quality report error", <<>>, <<ExcType>>))
        ELSE IF r.kind = "none"
        THEN Return(f, Failure("Project path not found", <<r.path>>, <<>>))
        ELSE IF ~binOk
        THEN Return(g, Failure("Quality report error", <<>>, <<ExcNoBinary>>))
        ELSE Run(g, "gemini", "--prompt", f.cwd,
                 TimeoutOf("code_quality_report"))

\* code_quality_report_handler from the end of the wait.
code_quality_report_done(f, r, o) ==
    IF o.how = "timeout"
    THEN Return(f, Failure("Quality report error", <<>>, <<ExcTimeout>>))
    ELSE IF o.rc = 0
    THEN Return(f, Success("Code quality report generated!",
                           <<r.path, IncludeMetrics(r)>>, <<o.out>>))
    ELSE Return(f, Failure("Quality report generation failed", <<>>, <<o.err>>))

\* ask_gemini_handler with an except clause too narrow for the error of a
\* binary that cannot be started.
ask_gemini_start_uncaught(f, r, binOk) ==
    IF r.badType
    THEN Return(f, Failure("Error", <<>>, <<ExcType>>))
    ELSE IF ~binOk
    THEN Raise(f, Raised("FileNotFoundError", ExcNoBinary))
    ELSE Run(f, "gemini",
             IF IncludeAllFiles(r) = "True"
             THEN "--prompt --all_files" ELSE "--prompt",
             f.cwd, TimeoutOf("ask_gemini"))

\* ask_gemini_handler up to subprocess.run.
ask_gemini_start(f, r, binOk) ==
    IF r.badType
    THEN Return(f, Failure("Error", <<>>, <<ExcType>>))
    ELSE IF ~binOk
    THEN Return(f, Failure("Error", <<>>, <<ExcNoBinary>>))
    ELSE Run(f, "gemini",
             IF IncludeAllFiles(r) = "True"
             THEN "--prompt --all_files" ELSE "--prompt",
             f.cwd, TimeoutOf("ask_gemini"))

\* ask_gemini_handler from the end of the wait.
ask_gemini_done(f, r, o) ==
    IF o.how = "timeout"
    THEN Return(f, TimedOut("Gemini request timed out"))
    ELSE IF o.rc = 0
    THEN Return(f, Success("Gemini Response", <<>>, <<o.out>>))
    ELSE Return(f, Failure("Gemini Error", <<>>, <<o.err>>))

----------------------------------------------------------------------------
(* call_tool and the life cycle of a request. *)

\* The handler named h, from its first line to its first wait or its return.
\* The subscriptions of the required arguments come first and are outside
\* the try block: a missing key leaves the handler as a KeyError.
Start(h, f, r, readable, binOk) ==
    CASE h = "generate_code"         -> generate_code_start(f, r, binOk)
      [] h = "analyze_file"          -> analyze_file_start(f, r, readable, binOk)
      [] h = "create_feature_branch" -> create_feature_branch_start(f, r)
      [] h = "analyze_url_content"   -> analyze_url_content_start(f, r, binOk)
      [] h = "ask_claude"            -> ask_claude_start(f, r, binOk)
      [] h = "review_code"           -> review_code_start(f, r, readable, binOk)
      [] h = "generate_tests"        -> generate_tests_start(f, r, readable, binOk)
      [] h = "security_audit"        -> security_audit_start(f, r)
      [] h = "performance_analysis"  -> performance_analysis_start(f, r, readable, binOk)
      [] h = "code_quality_report"   -> code_quality_report_start(f, r, binOk)
      [] h = "ask_gemini"            -> ask_gemini_start(f, r, binOk)

\* The first required key the argument mapping lacks.
MissingKey(h, r) ==
    LET ks == Subscripts(h)
    IN  ks[CHOOSE i \in 1..Len(ks) :
                ks[i] \notin r.has /\ \A j \in 1..(i - 1) : ks[j] \in r.has]

\* A handler that reads its required arguments with args.get(k) and so
\* never fails on a missing key.
InvokeLenient(h, f, r, readable, binOk) ==
    Start(h, [f EXCEPT !.handler = h], r, readable, binOk)

\* await <h>_handler(arguments)
Invoke(h, f, r, readable, binOk) ==
    LET g == [f EXCEPT !.handler = h]
    IN  IF ~(Subscripted(h) \subseteq r.has)
        THEN Raise(g, Raised("KeyError", MissingKey(h, r)))
        ELSE Start(h, g, r, readable, binOk)

\* raise ValueError(f"Unknown tool: {name}")
UnknownTool(f, r) == Raise(f, Raised("Unknown tool", r.name))

\* call_tool with a final else that falls back to the free-form tool instead
\* of raising.
claude_call_tool_fallback(f, r, readable, binOk) ==
    IF r.name = "generate_code" THEN Invoke("generate_code", f, r, readable, binOk)
    ELSE IF r.name = "analyze_file" THEN Invoke("analyze_file", f, r, readable, binOk)
    ELSE IF r.name = "create_feature_branch"
    THEN Invoke("create_feature_branch", f, r, readable, binOk)
    ELSE IF r.name = "analyze_url_content"
    THEN Invoke("analyze_url_content", f, r, readable, binOk)
    ELSE Invoke("ask_claude", f, r, readable, binOk)

\* call_tool of the developer adapter: the if/elif chain on the name.
claude_call_tool(f, r, readable, binOk) ==
    IF r.name = "generate_code" THEN Invoke("generate_code", f, r, readable, binOk)
    ELSE IF r.name = "analyze_file" THEN Invoke("analyze_file", f, r, readable, binOk)
    ELSE IF r.name = "create_feature_branch"
    THEN Invoke("create_feature_branch", f, r, readable, binOk)
    ELSE IF r.name = "analyze_url_content"
    THEN Invoke("analyze_url_content", f, r, readable, binOk)
    ELSE IF r.name = "ask_claude" THEN Invoke("ask_claude", f, r, readable, binOk)
    ELSE UnknownTool(f, r)

\* call_tool with a branch that hands performance_analysis to the review
\* handler.
gemini_call_tool_misrouted(f, r, readable, binOk) ==
    IF r.name = "review_code" THEN Invoke("review_code", f, r, readable, binOk)
    ELSE IF r.name = "generate_tests" THEN Invoke("generate_tests", f, r, readable, binOk)
    ELSE IF r.name = "security_audit" THEN Invoke("security_audit", f, r, readable, binOk)
    ELSE IF r.name = "performance_analysis"
    THEN Invoke("review_code", f, r, readable, binOk)
    ELSE IF r.name = "code_quality_report"
    THEN Invoke("code_quality_report", f, r, readable, binOk)
    ELSE IF r.name = "ask_gemini" THEN Invoke("ask_gemini", f, r, readable, binOk)
    ELSE UnknownTool(f, r)

\* call_tool of the QA adapter.
gemini_call_tool(f, r, readable, binOk) ==
    IF r.name = "review_code" THEN Invoke("review_code", f, r, readable, binOk)
    ELSE IF r.name = "generate_tests" THEN Invoke("generate_tests", f, r, readable, binOk)
    ELSE IF r.name = "security_audit" THEN Invoke("security_audit", f, r, readable, binOk)
    ELSE IF r.name = "performance_analysis"
    THEN Invoke("performance_analysis", f, r, readable, binOk)
    ELSE IF r.name = "code_quality_report"
    THEN Invoke("code_quality_report", f, r, readable, binOk)
    ELSE IF r.name = "ask_gemini" THEN Invoke("ask_gemini", f, r, readable, binOk)
    ELSE UnknownTool(f, r)

call_tool(a, f, r, readable, binOk) ==
    IF a = "claude" THEN claude_call_tool(f, r, readable, binOk)
    ELSE gemini_call_tool(f, r, readable, binOk)

\* The loop head of the two handlers that run several processes.
Loop(h, f, r, readable, binOk) ==
    CASE h = "create_feature_branch" -> create_feature_branch_loop(f, r, binOk)
      [] h = "security_audit"        -> security_audit_loop(f, r, readable, binOk)

\* The handler named h from the end of a wait on.
Done(h, f, r, o, mkdirOk, writeOk) ==
    CASE h = "generate_code"         -> generate_code_done(f, r, o)
      [] h = "analyze_file"          -> analyze_file_done(f, r, o)
      [] h = "create_feature_branch" -> create_feature_branch_done(f, r, o)
      [] h = "analyze_url_content"   -> analyze_url_content_done(f, r, o)
      [] h = "ask_claude"            -> ask_claude_done(f, r, o)
      [] h = "review_code"           -> review_code_done(f, r, o)
      [] h = "generate_tests"        -> generate_tests_done(f, r, o, mkdirOk, writeOk)
      [] h = "security_audit"        -> security_audit_done(f, r, o)
      [] h = "performance_analysis"  -> performance_analysis_done(f, r, o)
      [] h = "code_quality_report"   -> code_quality_report_done(f, r, o)
      [] h = "ask_gemini"            -> ask_gemini_done(f, r, o)

Last(s) == s[Len(s)]

Init ==
    /\ adapter \in Adapters
    /\ phase = "idle"
    /\ req = NoReq
    /\ handler = "none"
    /\ result = NoResult
    /\ log = <<>>
    /\ outcomes = <<>>
    /\ cwd = StartDir
    /\ original_dir = ""
    /\ idx = 0
    /\ acc = <<>>
    /\ prompt = NoPrompt
    /\ inflight = 0
    /\ served = 0

\* The transport loop reads the next request (one of rs).
ReceiveFrom(rs) ==
    /\ phase = "idle"
    /\ \E r \in rs : req' = r
    /\ phase' = "received"
    /\ UNCHANGED <<adapter, handler, result, log, outcomes, cwd,
                   original_dir, idx, acc, prompt, inflight, served>>

Receive == ReceiveFrom(Requests(adapter))

\* The framework calls call_tool(name, arguments); the routed handler runs
\* to its first wait or to its return.
CallTool ==
    /\ phase = "received"
    /\ \E readable \in BOOLEAN :
          Apply(call_tool(adapter, Frame, req, readable, req.installed))
    /\ UNCHANGED <<adapter, req, served>>

\* A handler at its loop head takes the next turn (the file it reads is
\* readable or not, as rs allows).
LoopStepWith(rs) ==
    /\ phase = "loop"
    /\ \E readable \in rs :
          Apply(Loop(handler, Frame, req, readable, req.installed))
    /\ UNCHANGED <<adapter, req, served>>

LoopStep == LoopStepWith(BOOLEAN)

\* The external process exits (with one of the given codes and outputs); the
\* handler goes on with its result.
ProcExitWith(rcs, outs, errs) ==
    /\ phase = "running"
    /\ \E rc \in rcs, out \in outs, err \in errs,
          mkdirOk \in BOOLEAN, writeOk \in BOOLEAN :
          LET o == Exited(rc, out, err)
          IN  Apply(Done(handler, Reap(Frame, o), req, o, mkdirOk, writeOk))
    /\ UNCHANGED <<adapter, req, served>>

ProcExit == ProcExitWith(ExitCodes, Stdouts, Stderrs)

\* The wait of subprocess.run expires: only a wait that was given a timeout
\* can.  subprocess.TimeoutExpired is raised in the handler.
ProcTimeout ==
    /\ phase = "running"
    /\ Last(log).timeout # NoTimeout
    /\ Apply(Done(handler, Reap(Frame, Expired), req, Expired, TRUE, TRUE))
    /\ UNCHANGED <<adapter, req, served>>

\* The framework writes the response (the envelope, or the protocol error
\* made of the exception) and the loop is ready for the next request.
Emit ==
    /\ phase \in {"resolved", "raised"}
    /\ phase' = "idle"
    /\ req' = NoReq
    /\ handler' = "none"
    /\ result' = NoResult
    /\ log' = <<>>
    /\ outcomes' = <<>>
    /\ idx' = 0
    /\ acc' = <<>>
    /\ prompt' = NoPrompt
    /\ served' = IF served < MaxServed THEN served + 1 ELSE served
    /\ UNCHANGED <<adapter, cwd, original_dir, inflight>>

\* The requests of the naming specification: generate_tests on every path
\* over PathAlphabet up to MaxPathLen characters and on the named source
\* files.  A path whose last component is empty, "." or ".." names a
\* directory, the empty path names nothing.
PathAlphabet == {"a", ".", "/", "p", "y"}

AllPaths == UNION {[1..k -> PathAlphabet] : k \in 0..MaxPathLen}

KindOfPath(s) ==
    IF s = <<>> THEN "none"
    ELSE IF basename(s) \in {<<>>, <<".">>, <<".", ".">>} THEN "dir"
    ELSE "file"

NamingRequests ==
    {Req("generate_tests", {"source_file"}, FALSE, Str(s), KindOfPath(s),
         s, <<>>, "", 0) : s \in AllPaths \cup SourceFiles}

ReceiveNaming == ReceiveFrom(NamingRequests)

\* The requests of the branch specification: create_feature_branch on every
\* feature name over NameAlphabet up to MaxNameLen characters.
NameAlphabet == {"a", "Z", "7", " ", "_", CapitalIDot, CapitalEAcute}

AllNames == UNION {[1..k -> NameAlphabet] : k \in 0..MaxNameLen}

BranchRequests ==
    {Req("create_feature_branch", {"feature_name"}, FALSE, "", "none",
         <<>>, N, "", 0) : N \in AllNames}

ReceiveBranch == ReceiveFrom(BranchRequests)

\* A git whose commands all succeed and print the same.
GitExit == ProcExitWith({0}, {"OK"}, {"E1"})

\* The requests of the audit specification: security_audit on one file and
\* on directories of up to MaxAuditCandidates candidate files, at every audit
\* level, under every script.  A script fixes how the audit of the i-th file
\* ends: all the same way, or in turn each of the four ways.
Fates == <<"ok", "failed", "timeout", "unreadable">>

Scripts == Range(Fates) \cup {"mixed"}

Scripted(script, i) ==
    IF script = "mixed" THEN Fates[(i % Len(Fates)) + 1] ELSE script

AuditLevels ==
    {<<{}, "">>, <<{"audit_level"}, "deep">>, <<{"audit_level"}, "quick">>,
     <<{"audit_level"}, "paranoid">>}

AuditRequests ==
    {[Req("security_audit", {"target_path"} \cup o[1], FALSE, "/w/proj",
          "dir", <<>>, <<>>, o[2], n) EXCEPT !.script = sc] :
        o \in AuditLevels, n \in 0..MaxAuditCandidates, sc \in Scripts}
    \cup {[Req("security_audit", {"target_path"} \cup o[1], FALSE,
               "/w/app.py", "file", <<>>, <<>>, o[2], 1)
             EXCEPT !.script = sc] :
            o \in AuditLevels, sc \in Scripts}

ReceiveAudit == ReceiveFrom(AuditRequests)

\* How the audit of the file at the loop index ends.
Fate == Scripted(req.script, idx)

AuditLoopStep == LoopStepWith({Fate # "unreadable"})

AuditExit ==
    ProcExitWith(IF Fate = "ok" THEN {0} ELSE IF Fate = "failed" THEN {1}
                 ELSE {}, {"OK"}, {"E1"})

AuditTimeout == Fate = "timeout" /\ ProcTimeout

\* The requests of the quality specification: code_quality_report on every
\* project tree with no key files and with more than are read, and on the
\* bare project directory with every list of key files.
ManyKeys == [i \in 1..MaxKeyFiles |-> KeyFile(i, 2001, TRUE)]

QualityRequests ==
    {[Req("code_quality_report", {"project_path"}, FALSE, "/w/proj", "dir",
          <<>>, <<>>, "", 0) EXCEPT !.tree = t, !.keys = ks] :
        t \in Trees, ks \in {<<>>, ManyKeys}}
    \cup {[Req("code_quality_report", {"project_path"}, FALSE, "/w/proj",
               "dir", <<>>, <<>>, "", 0) EXCEPT !.keys = ks] :
            ks \in KeyLists}

ReceiveQuality == ReceiveFrom(QualityRequests)

\* A CLI that prints the same whatever its exit code.
QualityExit == ProcExitWith(ExitCodes, {"OK"}, {"E1"})

Next == Receive \/ CallTool \/ LoopStep \/ ProcExit \/ ProcTimeout \/ Emit

Spec == Init /\ [][Next]_vars

\* The adapter's own steps are taken when they can be: the code runs on when
\* nothing blocks it, and a wait that has a timeout ends.  Nothing makes a
\* client send a request or an external process exit.
Fairness ==
    /\ WF_vars(CallTool)
    /\ WF_vars(LoopStep)
    /\ WF_vars(ProcTimeout)
    /\ WF_vars(Emit)

FairSpec == Spec /\ Fairness

\* The QA adapter serving generate_tests requests only.
InitNaming == Init /\ adapter = "gemini"

NextNaming == ReceiveNaming \/ CallTool \/ ProcExit \/ ProcTimeout \/ Emit

NamingSpec == InitNaming /\ [][NextNaming]_vars

\* The developer adapter serving create_feature_branch requests only.
InitBranch == Init /\ adapter = "claude"

NextBranch == ReceiveBranch \/ CallTool \/ LoopStep \/ GitExit \/ Emit

BranchSpec == InitBranch /\ [][NextBranch]_vars

\* The QA adapter serving security_audit requests only.
InitAudit == Init /\ adapter = "gemini"

NextAudit ==
    ReceiveAudit \/ CallTool \/ AuditLoopStep \/ AuditExit \/ AuditTimeout
        \/ Emit

AuditSpec == InitAudit /\ [][NextAudit]_vars

\* The QA adapter serving code_quality_report requests only.
NextQuality ==
    ReceiveQuality \/ CallTool \/ QualityExit \/ ProcTimeout \/ Emit

QualitySpec == InitAudit /\ [][NextQuality]_vars

----------------------------------------------------------------------------
(* Properties. *)

\* The handlers that start the AI CLI exactly once per request.
SingleLaunch ==
    (ClaudeTools \cup GeminiTools) \ {"create_feature_branch", "security_audit"}

\* The handlers that read a file or path named in their arguments.
FileReading ==
    {"analyze_file", "review_code", "generate_tests", "performance_analysis",
     "security_audit", "code_quality_report"}

\* The request names a registered tool and carries its required arguments.
WellFormed == req.name \in Registered(adapter) /\ Required(req.name) \subseteq req.has

\* Some process of the current request ended the way p says.
SomeOutcome(p(_)) == \E i \in 1..Len(outcomes) : p(outcomes[i])

IsTimeout(o) == o.how = "timeout"

IsExitZero(o) == o.how = "exit" /\ o.rc = 0

IsExitNonZero(o) == o.how = "exit" /\ o.rc # 0

\* C1: whenever an external AI CLI process of a request exceeded its
\* timeout, the result returned for the request is the dedicated timeout
\* envelope.  (Stated as claimed; the handlers without an
\* except TimeoutExpired clause violate it.)
C1_TimeoutEnvelope ==
    (phase = "resolved" /\ SomeOutcome(IsTimeout)) => result.status = "timeout"

\* C1, what the code does: the three handlers with an except TimeoutExpired
\* clause answer a timeout with the timeout envelope, the single-launch
\* handlers without one with a generic failure envelope that carries the
\* exception text.
C1_TimeoutByHandler ==
    (phase = "resolved" /\ handler \in SingleLaunch /\ SomeOutcome(IsTimeout))
        => IF handler \in {"generate_code", "ask_claude", "ask_gemini"}
           THEN result.status = "timeout"
           ELSE result.status = "failure" /\ result.output = <<ExcTimeout>>

\* C2: a tool name that is not registered with the adapter makes call_tool
\* fail with the unknown-tool error naming it; no handler runs and no
\* external process is started for the request.
C2_UnknownTool ==
    (phase # "idle" /\ phase # "received" /\ req.name \notin Registered(adapter))
        => /\ phase = "raised"
           /\ result = Raised("Unknown tool", req.name)
           /\ handler = "none"
           /\ log = <<>>
           /\ outcomes = <<>>

C2_Witness ==
    /\ phase = "raised"
    /\ req.name = "bogus"
    /\ result.head = "Unknown tool"
    /\ result.params = <<"bogus">>

\* C3 as claimed: a request for a registered tool that lacks a required
\* argument never gets its handler invoked.
C3_HandlerNeverInvoked ==
    (req.name \in Registered(adapter) /\ ~(Required(req.name) \subseteq req.has))
        => handler = "none"

\* C3 as amended: for such a request call_tool does invoke the handler, and
\* the handler fails with a KeyError for the missing key at its argument
\* subscriptions, before its try block: nothing is started, no envelope is
\* returned, the error leaves call_tool.
C3_MissingArgumentRaises ==
    (/\ phase # "idle" /\ phase # "received"
     /\ req.name \in Registered(adapter)
     /\ ~(Required(req.name) \subseteq req.has))
        => /\ phase = "raised"
           /\ handler = req.name
           /\ result.head = "KeyError"
           /\ \E k \in Required(req.name) \ req.has : result.params = <<k>>
           /\ log = <<>>
           /\ outcomes = <<>>

C3_Witness ==
    /\ phase = "raised"
    /\ req.name = "performance_analysis"
    /\ req.has = {"file_path"}
    /\ handler = "performance_analysis"
    /\ result = Raised("KeyError", "language")

\* C4: a file-reading handler whose path names nothing returns a failure
\* envelope whose text contains the path; it does not raise and starts no
\* external process.
C4_MissingPath ==
    (/\ phase # "idle" /\ phase # "received"
     /\ WellFormed
     /\ req.name \in FileReading
     /\ ~req.badType
     /\ req.kind = "none")
        => /\ phase = "resolved"
           /\ result.status = "failure"
           /\ req.path \in Range(result.params)
           /\ log = <<>>
           /\ outcomes = <<>>

C4_Witness ==
    /\ phase = "resolved"
    /\ handler = "review_code"
    /\ req.kind = "none"
    /\ result = Failure("File not found", <<req.path>>, <<>>)

\* C5 as claimed: when a process a handler started exited with status 0 and
\* standard output S, the handler returns a success envelope whose output is
\* S (for the handlers that run several processes: contains S).
C5_ExitZeroSuccess ==
    phase = "resolved" =>
        \A i \in 1..Len(outcomes) :
            IsExitZero(outcomes[i]) =>
                /\ result.status = "success"
                /\ IF handler \in SingleLaunch
                   THEN result.output = <<outcomes[i].out>>
                   ELSE outcomes[i].out \in Range(result.output)

\* C5, what the code does: the claim holds of every handler but
\* generate_tests, which answers a failed os.makedirs with a failure envelope
\* that drops the generated tests.
C5_ExitZeroSuccessButMkdir ==
    (phase = "resolved"
     /\ ~(handler = "generate_tests" /\ result.output = <<ExcMkdir>>)) =>
        \A i \in 1..Len(outcomes) :
            IsExitZero(outcomes[i]) =>
                /\ result.status = "success"
                /\ IF handler \in SingleLaunch
                   THEN result.output = <<outcomes[i].out>>
                   ELSE outcomes[i].out \in Range(result.output)

AddUserAuth == <<"A","d","d"," ","U","s","e","r"," ","A","u","t","h","!">>

\* A create_feature_branch request for "Add User Auth!" has run its three
\* commands and returned.
BranchCreatedFor(name) ==
    /\ phase = "resolved"
    /\ handler = "create_feature_branch"
    /\ req.feature = name
    /\ result.status = "success"

\* C6 as claimed: for the feature name "Add User Auth!" the branch passed to
\* the third version-control command and reported is "feature/add-user-auth".
C6_BranchNameAsClaimed ==
    BranchCreatedFor(AddUserAuth) =>
        /\ Len(log) = 3
        /\ log[3].arg = "checkout -b feature/add-user-auth"
        /\ result.params = <<"feature/add-user-auth">>

\* C6 as amended: the branch is "feature/add-user-auth-"; the final "!" is
\* replaced by a hyphen like every other non-alphanumeric character, and
\* nothing is trimmed.
C6_BranchName ==
    BranchCreatedFor(AddUserAuth) =>
        /\ Len(log) = 3
        /\ log[3] = RunEffect("git", "checkout -b feature/add-user-auth-",
                              StartDir, NoTimeout)
        /\ result.params = <<"feature/add-user-auth-">>

C6_Witness ==
    /\ BranchCreatedFor(AddUserAuth)
    /\ Len(outcomes) = 3
    /\ result.params = <<"feature/add-user-auth-">>

\* The name the claim gives the test file of a source with base name B and
\* extension E.
ClaimedTestName(B, E) ==
    IF E \in { <<".","j","s">>, <<".","t","s">>,
               <<".","j","s","x">>, <<".","t","s","x">> }
    THEN B \o <<".","t","e","s","t">> \o E
    ELSE IF E = <<".","p","y">>
    THEN <<"t","e","s","t","_">> \o B \o <<".","p","y">>
    ELSE IF E = <<".","j","a","v","a">>
    THEN B \o <<"T","e","s","t",".","j","a","v","a">>
    ELSE B \o <<"_","t","e","s","t">> \o E

\* generate_tests has saved a test file for the current request.
TestsSaved ==
    /\ phase = "resolved"
    /\ handler = "generate_tests"
    /\ result.head = "Test cases generated and saved!"

\* C7: the test file generate_tests writes and reports is named from the
\* base name B and the extension E of the source's last component by the
\* claim's table, and lies directly under ./tests/ (calc.py gives
\* test_calc.py, app.js app.test.js, Main.java MainTest.java, lib.rb
\* lib_test.rb).
C7_TestFileNaming ==
    TestsSaved =>
        LET last == basename(req.src)
            B == splitext(last)[1]
            E == splitext(last)[2]
            name == ClaimedTestName(B, E)
            written == log[Len(log)]
        IN  /\ B \o E = last
            /\ written.op = "write"
            /\ written.arg = "./tests/" \o Str(name)
            /\ result.params[2] = written.arg
            /\ "/" \notin Range(name)
            /\ req.path = "calc.py" => written.arg = "./tests/test_calc.py"
            /\ req.path = "app.js" => written.arg = "./tests/app.test.js"
            /\ req.path = "Main.java" => written.arg = "./tests/MainTest.java"
            /\ req.path = "lib.rb" => written.arg = "./tests/lib_test.rb"

C7_Witness ==
    /\ TestsSaved
    /\ req.path = "calc.py"
    /\ log[Len(log)].arg = "./tests/test_calc.py"

\* C8 as claimed: when the AI CLI exits with a non-zero status the handler
\* returns a failure envelope that contains the captured standard error and
\* the standard output.
C8_NonZeroExitAsClaimed ==
    (phase = "resolved" /\ handler # "create_feature_branch") =>
        \A i \in 1..Len(outcomes) :
            IsExitNonZero(outcomes[i]) =>
                /\ result.status = "failure"
                /\ outcomes[i].err \in Range(result.output)
                /\ outcomes[i].out \in Range(result.output)

\* C8 as amended: a handler that starts the AI CLI once returns a failure
\* envelope with the captured standard error; the standard output is in it
\* for generate_code only.  security_audit notes the standard error of a
\* failed file in a report that is a success envelope.
C8_NonZeroExit ==
    phase = "resolved" =>
        \A i \in 1..Len(outcomes) :
            IsExitNonZero(outcomes[i]) =>
                /\ handler \in SingleLaunch =>
                      /\ result.status = "failure"
                      /\ result.output =
                            IF handler = "generate_code"
                            THEN <<outcomes[i].err, outcomes[i].out>>
                            ELSE <<outcomes[i].err>>
                /\ handler = "security_audit" =>
                      /\ result.status = "success"
                      /\ outcomes[i].err \in Range(result.output)

C8_Witness ==
    /\ phase = "resolved"
    /\ handler = "generate_code"
    /\ outcomes = <<Exited(1, "partial", "E2")>>
    /\ result = Failure("Code generation failed", <<>>, <<"E2", "partial">>)

\* The current request met a fault: a missing or unreadable path, a binary
\* that cannot be started, an argument of the wrong type, a non-zero exit or
\* a timeout.
Faulted ==
    \/ req.badType
    \/ ~req.installed
    \/ req.name \in FileReading /\ req.kind # "file"
    \/ SomeOutcome(IsExitNonZero)
    \/ SomeOutcome(IsTimeout)

\* C9: a handler called with its required arguments never lets a fault out:
\* the request never ends raised, what the handler returns is an envelope
\* (success, failure or timeout), and the adapter is then as ready as at
\* startup (its working directory restored, the response ready to emit).
C9_FaultsBecomeEnvelopes ==
    WellFormed =>
        /\ phase # "raised"
        /\ phase = "resolved" =>
              /\ result.status \in {"success", "failure", "timeout"}
              /\ cwd = StartDir
              /\ ENABLED Emit

C9_Witness ==
    /\ WellFormed
    /\ Faulted
    /\ phase = "resolved"
    /\ handler = "ask_gemini"
    /\ result = Failure("Error", <<>>, <<ExcNoBinary>>)

\* C10 as claimed, the bounded wait: every external process a handler
\* starts is waited for with a timeout.
C10_BoundedWait ==
    \A i \in 1..Len(log) : log[i].op = "run" => log[i].timeout # NoTimeout

\* C10 as claimed, the life cycle: a request dispatched to a handler is
\* eventually resolved and emitted, whether or not its processes exit.
C10_EventuallyEmitted == (handler # "none") ~> (phase = "idle")

\* C10, what the code does: the AI CLI is always waited for with a timeout;
\* the version-control commands of create_feature_branch never are.
C10_BoundedWaitButGit ==
    \A i \in 1..Len(log) :
        log[i].op = "run" => (log[i].timeout = NoTimeout <=> log[i].bin = "git")

\* The processes the current request has started.
Launches == SelectSeq(log, LAMBDA e : e.op = "run")

CheckoutBasePullCreate ==
    << "checkout " \o BaseBranch(req),
       "pull origin " \o BaseBranch(req),
       "checkout -b " \o branch_name(req.feature) >>

\* What the three commands printed, with the standard error of each one that
\* exited non-zero right after its output.
RECURSIVE Aggregated(_)
Aggregated(os) ==
    IF os = <<>> THEN <<>>
    ELSE (IF os[1].rc # 0 THEN <<os[1].out, os[1].err>> ELSE <<os[1].out>>)
         \o Aggregated(Tail(os))

\* C12: create_feature_branch starts git commands only, and the i-th it
\* starts is the i-th of checkout base, pull base, checkout -b new; when the
\* handler returns (git can be started, the name is text) it has run all
\* three whatever their exit codes, and it returns the success envelope with
\* the output of all three and a warning after each that exited non-zero.
C12_ThreeCommands ==
    handler = "create_feature_branch" =>
        /\ Len(log) <= 3
        /\ \A i \in 1..Len(log) :
              /\ log[i].op = "run"
              /\ log[i].bin = "git"
              /\ log[i].arg = CheckoutBasePullCreate[i]
        /\ (phase = "resolved" /\ req.installed /\ ~req.badType) =>
              /\ Len(log) = 3
              /\ Len(outcomes) = 3
              /\ result.status = "success"
              /\ result.output = Aggregated(outcomes)

\* The branch was created after checkout and pull both exited non-zero.
C12_Witness ==
    /\ handler = "create_feature_branch"
    /\ phase = "resolved"
    /\ Len(log) = 3
    /\ IsExitNonZero(outcomes[1])
    /\ IsExitNonZero(outcomes[2])
    /\ IsExitZero(outcomes[3])
    /\ result.status = "success"
    /\ Len(result.output) = 5

\* The third command of a create_feature_branch request has been started.
BranchNamed ==
    /\ handler = "create_feature_branch"
    /\ Len(log) = 3

\* The characters the claim allows in the sanitized part.
BranchChars == Range(Lowers) \cup Digits \cup {"-"}

\* C13 as claimed: the branch handed to git checkout -b is "feature/"
\* followed by a sanitized part S of lowercase letters, digits and hyphens
\* that has the same length as the feature name N.
C13_BranchNameAsClaimed ==
    BranchNamed =>
        LET S == Sanitize(lower(req.feature))
        IN  /\ log[3].arg = "checkout -b feature/" \o Str(S)
            /\ Range(S) \subseteq BranchChars
            /\ Len(S) = Len(req.feature)

\* C13 as amended: S has the length of the lowercased name L, which is that
\* of N unless N holds U+0130 (whose lowercase is two characters); S[i] is
\* L[i] where that is a lowercase ASCII letter or a digit and one hyphen
\* where it is anything else, so nothing is collapsed or trimmed.
C13_BranchName ==
    BranchNamed =>
        LET L == lower(req.feature)
            S == Sanitize(L)
        IN  /\ log[3].arg = "checkout -b feature/" \o Str(S)
            /\ Range(S) \subseteq BranchChars
            /\ Len(S) = Len(L)
            /\ \A i \in 1..Len(L) :
                  S[i] = IF L[i] \in Range(Lowers) \cup Digits
                         THEN L[i] ELSE "-"
            /\ CapitalIDot \notin Range(req.feature) =>
                  /\ Len(S) = Len(req.feature)
                  /\ \A i \in 1..Len(S) :
                        S[i] = "-" <=>
                           req.feature[i] \notin Range(Lowers)
                                \cup Range(Uppers) \cup Digits

\* The branch of the three-character name U+0130, space, "Z" has been
\* created: four characters after "feature/".
C13_Witness ==
    /\ BranchNamed
    /\ phase = "resolved"
    /\ req.feature = <<CapitalIDot, " ", "Z">>
    /\ result.params = <<"feature/i--z">>

\* The request being served names a registered tool, carries its required
\* arguments and leaves out the optional parameter p.
Omits(p) ==
    /\ phase \notin {"idle", "received"}
    /\ WellFormed
    /\ p \in Optional(req.name) \ req.has

OptionalParameters == UNION {Optional(h) : h \in ClaudeTools \cup GeminiTools}

\* C14: every optional parameter a request leaves out has a default declared
\* in the tool descriptor, and the handler works with that declared value.
C14_DeclaredDefaults ==
    \A p \in OptionalParameters :
        Omits(p) =>
            /\ Declared(req.name, p) # Undeclared
            /\ Effective(req, p) = Declared(req.name, p)

\* The default each handler's args.get gives an omitted parameter.
HandlerDefault(p) ==
    CASE p \in {"output_dir", "working_dir"}         -> "./"
      [] p = "base_branch"                           -> "main"
      [] p \in {"improvement_type", "review_type"}   -> "general"
      [] p = "audit_level"                           -> "quick"
      [] p = "test_framework"                        -> "jest"
      [] p = "coverage_level"                        -> "comprehensive"
      [] p = "include_metrics"                       -> "True"
      [] p = "include_all_files"                     -> "False"
      [] p = "context"                               -> ""

\* What the code does: the handler supplies a default for every omitted
\* parameter; the descriptor declares it, with the same value, for
\* output_dir, base_branch, working_dir and include_all_files only.
C14_DefaultsByHandler ==
    \A p \in OptionalParameters :
        Omits(p) =>
            /\ Effective(req, p) = HandlerDefault(p)
            /\ Declared(req.name, p) \in {Undeclared, HandlerDefault(p)}
            /\ Declared(req.name, p) # Undeclared <=>
                  p \in {"output_dir", "base_branch", "working_dir",
                         "include_all_files"}

\* The names a client may send: the tools of both adapters and the names no
\* adapter has.
ToolNames == {r.name : r \in Requests("claude") \cup Requests("gemini")}

\* The names call_tool of adapter a hands to a handler rather than raising
\* the unknown-tool error.
Routed(a) ==
    {nm \in ToolNames :
        call_tool(a, [Frame EXCEPT !.handler = "none"], Plain(nm, {}),
                  TRUE, TRUE).handler # "none"}

\* The descriptors are pairwise distinct by name, the names call_tool routes
\* are exactly theirs, and past call_tool the handler at work is the one of
\* the requested name (none for any other name).
RoutedByName ==
    /\ \A i, j \in DOMAIN ToolList(adapter) :
          i # j => ToolList(adapter)[i] # ToolList(adapter)[j]
    /\ Routed(adapter) = Range(ToolList(adapter))
    /\ phase \notin {"idle", "received"} =>
          handler = IF req.name \in Range(ToolList(adapter))
                    THEN req.name ELSE "none"

\* The one step call_tool takes for a request that names a registered tool
\* and carries its required arguments is the step of that tool's handler
\* itself: its state, effects and result are the handler's, unchanged.
HandlerStep ==
    (phase = "received" /\ WellFormed) =>
        \E readable \in BOOLEAN :
            Apply(Start(req.name, [Frame EXCEPT !.handler = req.name], req,
                        readable, req.installed))

\* C15: the registered names are pairwise distinct and exactly the names
\* call_tool routes; a request for a registered name is served by the
\* handler of that name and by no other, in one invocation whose result
\* call_tool returns unchanged.
C15_Routing == []RoutedByName /\ [][HandlerStep]_vars

\* performance_analysis has returned its own success envelope.
C15_Witness ==
    /\ phase = "resolved"
    /\ req.name = "performance_analysis"
    /\ handler = "performance_analysis"
    /\ result.status = "success"
    /\ result.head = "Performance analysis completed!"

\* No handler is executing: the adapter waits for a request, has just read
\* one, or has a response to write.
Quiescent == phase \in {"idle", "received", "resolved", "raised"}

\* C16: whenever no handler is executing, and so whenever no request is in
\* progress, the process state of the adapter is what it was at startup: the
\* working directory is the startup directory, no saved directory and no
\* child process is left; and between requests nothing of the last request
\* remains.
C16_NoStateKept ==
    /\ Quiescent =>
          /\ cwd = StartDir
          /\ original_dir = ""
          /\ inflight = 0
    /\ phase = "idle" =>
          /\ req = NoReq
          /\ handler = "none"
          /\ result = NoResult
          /\ log = <<>>
          /\ outcomes = <<>>
          /\ idx = 0
          /\ acc = <<>>

\* A later generate_code request that ran in another directory has timed out
\* and the working directory is back.
C16_Witness ==
    /\ served >= 1
    /\ phase = "resolved"
    /\ handler = "generate_code"
    /\ Len(log) = 1
    /\ log[1].cwd # StartDir
    /\ result.status = "timeout"
    /\ cwd = StartDir

\* No two of the processes started have the same command line.
NoRepeat(ls) == \A i, j \in 1..Len(ls) : i # j => ls[i].arg # ls[j].arg

\* C17: nothing is started twice.  A single-target handler starts at most
\* one process per request; security_audit starts the CLI on selected files
\* only and on none twice; create_feature_branch starts none of its commands
\* twice; a request that reaches no handler starts nothing.
C17_NoRetry ==
    /\ handler \in SingleLaunch => Len(Launches) <= 1
    /\ handler = "security_audit" =>
          /\ NoRepeat(Launches)
          /\ \A i \in 1..Len(Launches) :
                \E k \in 1..Len(files_to_audit(req)) :
                    Launches[i].arg = "--prompt " \o files_to_audit(req)[k]
    /\ handler = "create_feature_branch" =>
          /\ NoRepeat(Launches)
          /\ \A i \in 1..Len(Launches) :
                \E k \in 1..3 : Launches[i].arg = commands(req)[k]
    /\ handler = "none" => Launches = <<>>

\* ask_claude has returned the failure envelope after its one process exited
\* non-zero.
C17_Witness ==
    /\ phase = "resolved"
    /\ handler = "ask_claude"
    /\ result.status = "failure"
    /\ Len(Launches) = 1
    /\ Len(outcomes) = 1
    /\ IsExitNonZero(outcomes[1])

\* A security_audit request on an existing target has returned.
Audited ==
    /\ phase = "resolved"
    /\ handler = "security_audit"
    /\ req.kind # "none"
    /\ ~req.badType

\* The tag of the entry a file leaves, by the way its audit ended.
TagOf(fate) == IF fate = "ok" THEN "ok" ELSE IF fate = "failed" THEN "failed"
               ELSE "error"

\* C18: with n candidates and m = 20 for the level "deep", 10 for any other,
\* security_audit returns the success report of exactly k = min(n, m)
\* entries: the i-th entry is about the i-th candidate and tells how its
\* audit ended, whatever ended the audits before it; the CLI was started on
\* the readable ones of these k files, in order; and the count reported is k.
C18_AuditCount ==
    Audited =>
        LET n == Len(candidates(req))
            m == IF "audit_level" \in req.has /\ req.opt = "deep"
                 THEN 20 ELSE 10
            k == IF n < m THEN n ELSE m
            started == {i \in 1..k : Scripted(req.script, i) # "unreadable"}
        IN  /\ result.status = "success"
            /\ result.params[2] = ToString(k)
            /\ Len(result.output) = k
            /\ Len(acc) = k
            /\ \A i \in 1..k :
                  /\ acc[i].what = candidates(req)[i]
                  /\ req.script # "any" =>
                        acc[i].tag = TagOf(Scripted(req.script, i))
            /\ req.script # "any" =>
                  /\ Len(Launches) = Cardinality(started)
                  /\ \A i \in started :
                        \E j \in 1..Len(Launches) :
                            Launches[j].arg = "--prompt " \o candidates(req)[i]
            /\ \A i, j \in 1..Len(Launches) :
                  i < j => \E a, b \in 1..k :
                      /\ a < b
                      /\ Launches[i].arg = "--prompt " \o candidates(req)[a]
                      /\ Launches[j].arg = "--prompt " \o candidates(req)[b]

\* A deep audit of a directory of 22 candidates whose audits end in every
\* way has returned a report of 20 entries.
C18_Witness ==
    /\ Audited
    /\ req.n = 22
    /\ AuditLevel(req) = "deep"
    /\ req.script = "mixed"
    /\ Len(acc) = 20
    /\ acc[1].tag = "failed"
    /\ acc[2].tag = "error"
    /\ acc[20].tag = "ok"
    /\ result.params[2] = "20"

\* Directory d of tree t is, or lies under, a directory below the project
\* directory that bears one of the seven names.
RECURSIVE Inside(_, _)
Inside(t, d) ==
    IF t[d].parent = 0 THEN FALSE
    ELSE \/ t[d].name \in {".git", "node_modules", "__pycache__", ".venv",
                           "venv", "build", "dist"}
         \/ Inside(t, t[d].parent)

\* code_quality_report has built its prompt for a project directory.
PromptBuilt ==
    /\ handler = "code_quality_report"
    /\ phase \in {"running", "resolved"}
    /\ req.kind = "dir"
    /\ ~req.badType

\* C19: in the prompt code_quality_report builds, no directory visited is or
\* lies under one of the seven excluded names; no directory has more than 10
\* of its files listed; no directory is visited once more than 100 files are
\* listed; the structure summary is the first lines of the listing, at most
\* 100; at most 5 key files are drawn on, at most 2000 characters of each.
C19_PromptBounded ==
    PromptBuilt =>
        LET t == req.tree
            at(tag) == {i \in 1..Len(acc) : acc[i].tag = tag}
        IN  /\ \A i \in at("dir") : ~Inside(t, acc[i].what)
            /\ \A d \in 1..Len(t) :
                  Cardinality({i \in at("file") : acc[i].what = d}) <= 10
            /\ \A i \in at("dir") :
                  Cardinality({j \in at("file") : j < i}) <= 100
            /\ Len(prompt.structure) <= 100
            /\ \A i \in 1..Len(prompt.structure) :
                  prompt.structure[i] = acc[i].text
            /\ Len(prompt.config) <= 5
            /\ \A i \in 1..Len(prompt.config) : prompt.config[i].taken <= 2000

\* The prompt of a project with node_modules, twelve more directories of
\* eleven files each and seven key files of 2001 characters: the walk was cut
\* short, the summary has 100 lines, five files gave 2000 characters each and
\* node_modules is not in the listing.
C19_Witness ==
    /\ PromptBuilt
    /\ req.tree = WideTree(12, 11, "node_modules")
    /\ req.keys = ManyKeys
    /\ Len(acc) > 100
    /\ acc[Len(acc)].tag = "truncated"
    /\ Len(prompt.structure) = 100
    /\ Len(prompt.config) = 5
    /\ prompt.config[5].taken = 2000
    /\ \A i \in 1..Len(acc) : acc[i].text # "  node_modules/"

\* The effects of the current request on the filesystem.
FsEffects == SelectSeq(log, LAMBDA e : e.op \in {"makedirs", "write"})

\* C20: generate_tests creates ./tests or writes a file only once its
\* process has exited 0, and once it has, the handler returns a success
\* envelope with the generated tests, whether or not the directory can be
\* made and the file saved.
C20_SavedOrNotSuccess ==
    handler = "generate_tests" =>
        /\ FsEffects # <<>> => SomeOutcome(IsExitZero)
        /\ (phase = "resolved" /\ SomeOutcome(IsExitZero)) =>
              /\ result.status = "success"
              /\ result.output = <<outcomes[1].out>>

\* What the code does: the first part holds; the second holds unless
\* os.makedirs("./tests") raises, which the handler answers with the failure
\* envelope, without the tests and with nothing written.  A write that fails
\* after the directory was made still gives the success envelope.
C20_SavedOrNotSuccessButMkdir ==
    handler = "generate_tests" =>
        /\ FsEffects # <<>> => SomeOutcome(IsExitZero)
        /\ (phase = "resolved" /\ SomeOutcome(IsExitZero)) =>
              IF result.output = <<ExcMkdir>>
              THEN /\ result.status = "failure"
                   /\ FsEffects = <<>>
              ELSE /\ result.status = "success"
                   /\ result.output = <<outcomes[1].out>>
                   /\ Len(FsEffects) \in {1, 2}
                   /\ FsEffects[1].op = "makedirs"

\* generate_code has started the CLI.
CodeLaunched ==
    /\ handler = "generate_code"
    /\ Len(log) >= 1
    /\ log[1].op = "run"

\* C21: generate_code starts the CLI in the requested output directory,
\* resolved against the working directory the adapter had when the request
\* began, whenever that directory exists, and in that original working
\* directory when it does not.
C21_RunsInOutputDir ==
    CodeLaunched =>
        log[1].cwd = IF DirExists(StartDir, OutputDir(req))
                     THEN Resolve(StartDir, OutputDir(req))
                     ELSE StartDir

\* What the code does: the claim holds of an absolute output_dir, of "./" and
\* of a directory that does not exist.  For a relative output_dir D that
\* exists the handler has already changed into D when it tests and passes D
\* again: the CLI starts in D/D when that exists and in the original working
\* directory when it does not, never in D.
C21_RunsInOutputDirButRelative ==
    CodeLaunched =>
        LET D == OutputDir(req)
            there == Resolve(StartDir, D)
        IN  IF D \in AbsolutePaths \cup {"./"} \/ ~DirExists(StartDir, D)
            THEN log[1].cwd = IF DirExists(StartDir, D) THEN there
                              ELSE StartDir
            ELSE /\ log[1].cwd # there
                 /\ log[1].cwd = IF DirExists(there, D) THEN Resolve(there, D)
                                 ELSE StartDir

====
